---- MODULE Spec2Model ----
(***************************************************************************)
(* prompt-diff: the semantic segmenter (parser.py) and the element aligner *)
(* and differ (differ.py), modelled as state machines.                     *)
(*                                                                         *)
(* A Python str is a sequence of one-character strings; a text is such a   *)
(* sequence with "\n" between its lines.  Line numbers and match offsets   *)
(* are 0-based as in the source; positions inside the regex engine and     *)
(* indices into element lists are 1-based (TLA+ sequences).                *)
(***************************************************************************)
EXTENDS Integers, Sequences, FiniteSets, TLC

(***************************************************************************)
(* Bounds of the model.                                                    *)
(***************************************************************************)
\* most lines of a text segmented line by line (SpecParse)
MaxLines == 3
\* most lines of each of the two texts compared (Spec)
MaxDiffLines == 2
\* most characters of each string scored (SpecSim)
MaxStrLen == 3
\* most elements of each of the two lists aligned (SpecAlign)
MaxElems == 2

(***************************************************************************)
(* Characters and the str methods the source uses.                         *)
(***************************************************************************)
LowerSeq == <<"a","b","c","d","e","f","g","h","i","j","k","l","m",
              "n","o","p","q","r","s","t","u","v","w","x","y","z">>
UpperSeq == <<"A","B","C","D","E","F","G","H","I","J","K","L","M",
              "N","O","P","Q","R","S","T","U","V","W","X","Y","Z">>
LowerChars == {LowerSeq[k] : k \in DOMAIN LowerSeq}
UpperChars == {UpperSeq[k] : k \in DOMAIN UpperSeq}
DigitChars == {"0","1","2","3","4","5","6","7","8","9"}
\* str.strip() and the regex class \s (the ASCII members that a TLA+ string can write)
SpaceChars == {" ", "\t", "\n", "\r", "\f"}

\* the backtick character, written by its code point
BackTick == "U+0060"

\* str.lower() of one character
LowerChar(c) ==
    IF c \in UpperChars
    THEN LowerSeq[CHOOSE k \in DOMAIN UpperSeq : UpperSeq[k] = c]
    ELSE c

\* the upper-case partner of one character (case-insensitive matching)
UpperChar(c) ==
    IF c \in LowerChars
    THEN UpperSeq[CHOOSE k \in DOMAIN LowerSeq : LowerSeq[k] = c]
    ELSE c

\* a sequence written as a function on 1..n, as the sequence value (a function
\* expression is evaluated again at every use, a sequence value is not)
AsSeq(f) == f \o <<>>

\* str.lower()
Lower(s) == AsSeq([k \in DOMAIN s |-> LowerChar(s[k])])

\* s[a..b] (1-based, inclusive), empty when a > b
Slice(s, a, b) == IF a > b THEN <<>> ELSE SubSeq(s, a, b)

\* str.lstrip(chars)
RECURSIVE LStrip(_, _)
LStrip(s, chars) ==
    IF Len(s) > 0 /\ s[1] \in chars THEN LStrip(Tail(s), chars) ELSE s

\* str.rstrip(chars)
RECURSIVE RStrip(_, _)
RStrip(s, chars) ==
    IF Len(s) > 0 /\ s[Len(s)] \in chars
    THEN RStrip(Slice(s, 1, Len(s) - 1), chars)
    ELSE s

\* str.strip()
Strip(s) == RStrip(LStrip(s, SpaceChars), SpaceChars)

\* str.startswith(prefix)
StartsWith(s, prefix) ==
    /\ Len(prefix) <= Len(s)
    /\ \A k \in DOMAIN prefix : s[k] = prefix[k]

\* the concatenation of a sequence of sequences
RECURSIVE Flatten(_)
Flatten(ss) ==
    IF Len(ss) = 0 THEN <<>> ELSE Head(ss) \o Flatten(Tail(ss))

\* sep.join(parts)
RECURSIVE Join(_, _)
Join(parts, sep) ==
    IF Len(parts) = 0 THEN <<>>
    ELSE IF Len(parts) = 1 THEN parts[1]
    ELSE parts[1] \o sep \o Join(Tail(parts), sep)

\* text.split(sep) for a one-character sep: always at least one part
RECURSIVE Split(_, _)
Split(s, sep) ==
    IF \A k \in DOMAIN s : s[k] # sep THEN <<s>>
    ELSE LET p == CHOOSE k \in DOMAIN s :
                      s[k] = sep /\ \A m \in 1..(k - 1) : s[m] # sep
         IN <<Slice(s, 1, p - 1)>> \o Split(Slice(s, p + 1, Len(s)), sep)

(***************************************************************************)
(* The regular expressions of the source, as syntax trees, and a           *)
(* backtracking matcher in the priority order of Python's re: Paths lists  *)
(* every way the expression matches at a position, the preferred way       *)
(* first, each with its end position and the span of capture group 1.      *)
(***************************************************************************)
Cls(S) == [t |-> "cls", s |-> S, neg |-> FALSE]
NotCls(S) == [t |-> "cls", s |-> S, neg |-> TRUE]
Lit(c) == Cls({c})
Cat(rs) == [t |-> "cat", rs |-> rs]
Alt(rs) == [t |-> "alt", rs |-> rs]
Star(r) == [t |-> "star", r |-> r]
LazyStar(r) == [t |-> "lazy", r |-> r]
Opt(r) == [t |-> "opt", r |-> r]
Plus(r) == Cat(<<r, Star(r)>>)
Grp(r) == [t |-> "grp", r |-> r]
Bol == [t |-> "bol"]
Eol == [t |-> "eol"]
Str(w) == Cat(AsSeq([k \in DOMAIN w |-> Lit(w[k])]))
\* the class . (anything but a line break)
Dot == NotCls({"\n"})
\* [a-zA-Z_], [a-zA-Z0-9_], [A-Z_], [A-Z0-9_], \s, \d
IdStart == Cls(LowerChars \cup UpperChars \cup {"_"})
IdChar == Cls(LowerChars \cup UpperChars \cup DigitChars \cup {"_"})
UpStart == Cls(UpperChars \cup {"_"})
UpChar == Cls(UpperChars \cup DigitChars \cup {"_"})
Space == Cls(SpaceChars)
Digit == Cls(DigitChars)

\* whether character c is in class r (ic: re.IGNORECASE)
InClass(c, r, ic) ==
    LET in == \/ c \in r.s
              \/ ic /\ (LowerChar(c) \in r.s \/ UpperChar(c) \in r.s)
    IN IF r.neg THEN ~in ELSE in

RECURSIVE Paths(_, _, _, _)
RECURSIVE CatPaths(_, _, _, _, _)
\* the ways rs[k..] match s from position i
CatPaths(rs, k, s, i, ic) ==
    IF k > Len(rs) THEN <<[e |-> i, g |-> <<>>]>>
    ELSE LET first == Paths(rs[k], s, i, ic)
             Then(p) ==
                 LET rest == CatPaths(rs, k + 1, s, p.e, ic)
                 IN IF p.g = <<>> THEN rest
                    ELSE AsSeq([m \in DOMAIN rest |-> [e |-> rest[m].e, g |-> p.g]])
         IN IF Len(first) = 0 THEN <<>>
            ELSE IF Len(first) = 1 THEN Then(first[1])
            ELSE Flatten(AsSeq([n \in DOMAIN first |-> Then(first[n])]))

\* the ways r matches s from position i
Paths(r, s, i, ic) ==
    LET here == <<[e |-> i, g |-> <<>>]>>
    IN CASE r.t = "cls" ->
              IF i <= Len(s) /\ InClass(s[i], r, ic)
              THEN <<[e |-> i + 1, g |-> <<>>]>> ELSE <<>>
         [] r.t = "cat" -> CatPaths(r.rs, 1, s, i, ic)
         [] r.t = "alt" ->
              Flatten(AsSeq([k \in DOMAIN r.rs |-> Paths(r.rs[k], s, i, ic)]))
         [] r.t = "star" ->
              LET once == SelectSeq(Paths(r.r, s, i, ic), LAMBDA p : p.e > i)
              IN Flatten(AsSeq([k \in DOMAIN once |-> Paths(r, s, once[k].e, ic)]))
                 \o here
         [] r.t = "lazy" ->
              LET once == SelectSeq(Paths(r.r, s, i, ic), LAMBDA p : p.e > i)
              IN here
                 \o Flatten(AsSeq([k \in DOMAIN once |->
                                       Paths(r, s, once[k].e, ic)]))
         [] r.t = "opt" -> Paths(r.r, s, i, ic) \o here
         [] r.t = "grp" ->
              LET inner == Paths(r.r, s, i, ic)
              IN AsSeq([k \in DOMAIN inner |->
                           [e |-> inner[k].e, g |-> <<i, inner[k].e>>]])
         [] r.t = "bol" -> IF i = 1 THEN here ELSE <<>>
         [] r.t = "eol" ->
              IF i = Len(s) + 1 \/ (i = Len(s) /\ s[i] = "\n") THEN here ELSE <<>>

\* re.match(r, s): whether r matches at the start of s
ReMatches(r, s, ic) == Len(Paths(r, s, 1, ic)) > 0

\* match.group(1) of re.match(r, s)
ReGroup1(r, s, ic) ==
    LET p == Paths(r, s, 1, ic)[1] IN Slice(s, p.g[1], p.g[2] - 1)

\* re.finditer(r, s): the non-overlapping matches, left to right, each with
\* group(1), start() and end() (0-based offsets)
RECURSIVE FindFrom(_, _, _)
FindFrom(r, s, pos) ==
    IF pos > Len(s) THEN <<>>
    ELSE LET ps == Paths(r, s, pos, FALSE)
         IN IF Len(ps) = 0 THEN FindFrom(r, s, pos + 1)
            ELSE LET p == ps[1]
                     m == [group1 |-> IF p.g = <<>> THEN <<>>
                                      ELSE Slice(s, p.g[1], p.g[2] - 1),
                           start |-> pos - 1, end |-> p.e - 1]
                 IN <<m>> \o FindFrom(r, s, IF p.e > pos THEN p.e ELSE pos + 1)
FindIter(r, s) == FindFrom(r, s, 1)

(***************************************************************************)
(* parser.py: the pattern tables.                                          *)
(***************************************************************************)
\* VARIABLE_PATTERNS: (pattern, syntax) in declaration order
VARIABLE_PATTERNS ==
    << \* \{\{\s*([a-zA-Z_][a-zA-Z0-9_]*(?:\s*\|\s*[a-zA-Z_][a-zA-Z0-9_]*)*)\s*\}\}
       [syntax |-> "jinja2",
        re |-> Cat(<<Lit("{"), Lit("{"), Star(Space),
                     Grp(Cat(<<IdStart, Star(IdChar),
                               Star(Cat(<<Star(Space), Lit("|"), Star(Space),
                                          IdStart, Star(IdChar)>>))>>)),
                     Star(Space), Lit("}"), Lit("}")>>)],
       \* \{%\s*([a-zA-Z_]+(?:\s+[^%]+)?)\s*%\}
       [syntax |-> "jinja2_block",
        re |-> Cat(<<Lit("{"), Lit("%"), Star(Space),
                     Grp(Cat(<<Plus(IdStart),
                               Opt(Cat(<<Plus(Space), Plus(NotCls({"%"}))>>))>>)),
                     Star(Space), Lit("%"), Lit("}")>>)],
       \* \{\{\{?\s*([a-zA-Z_][a-zA-Z0-9_.]*)\s*\}\}\}?
       [syntax |-> "mustache",
        re |-> Cat(<<Lit("{"), Lit("{"), Opt(Lit("{")), Star(Space),
                     Grp(Cat(<<IdStart, Star(Cls(IdChar.s \cup {"."}))>>)),
                     Star(Space), Lit("}"), Lit("}"), Opt(Lit("}"))>>)],
       \* \{([a-zA-Z_][a-zA-Z0-9_]*)(?::[^}]*)?\}
       [syntax |-> "fstring",
        re |-> Cat(<<Lit("{"), Grp(Cat(<<IdStart, Star(IdChar)>>)),
                     Opt(Cat(<<Lit(":"), Star(NotCls({"}"}))>>)), Lit("}")>>)],
       \* \$\{([a-zA-Z_][a-zA-Z0-9_]*)\}
       [syntax |-> "shell_brace",
        re |-> Cat(<<Lit("$"), Lit("{"), Grp(Cat(<<IdStart, Star(IdChar)>>)),
                     Lit("}")>>)],
       \* \$([a-zA-Z_][a-zA-Z0-9_]*)
       [syntax |-> "shell",
        re |-> Cat(<<Lit("$"), Grp(Cat(<<IdStart, Star(IdChar)>>))>>)],
       \* <([A-Z_][A-Z0-9_]*)(?:\s*/>|>)
       [syntax |-> "xml",
        re |-> Cat(<<Lit("<"), Grp(Cat(<<UpStart, Star(UpChar)>>)),
                     Alt(<<Cat(<<Star(Space), Lit("/"), Lit(">")>>), Lit(">")>>)>>)],
       \* \[\[?([A-Z_][A-Z0-9_]*)\]?\]
       [syntax |-> "placeholder",
        re |-> Cat(<<Lit("["), Opt(Lit("[")), Grp(Cat(<<UpStart, Star(UpChar)>>)),
                     Opt(Lit("]")), Lit("]")>>)] >>

\* INSTRUCTION_KEYWORDS (the last entry is the source's three-character
\* mis-decoded bullet, written by its code points)
INSTRUCTION_KEYWORDS ==
    <<
       <<"y","o","u"," ","a","r","e">>,
       <<"y","o","u"," ","m","u","s","t">>,
       <<"y","o","u"," ","s","h","o","u","l","d">>,
       <<"y","o","u"," ","w","i","l","l">>,
       <<"y","o","u"," ","c","a","n">>,
       <<"d","o"," ","n","o","t">>,
       <<"d","o","n","'","t">>,
       <<"n","e","v","e","r">>,
       <<"a","l","w","a","y","s">>,
       <<"e","n","s","u","r","e">>,
       <<"m","a","k","e"," ","s","u","r","e">>,
       <<"r","e","m","e","m","b","e","r">>,
       <<"n","o","t","e",":">>,
       <<"i","m","p","o","r","t","a","n","t",":">>,
       <<"w","a","r","n","i","n","g",":">>,
       <<"c","a","u","t","i","o","n",":">>,
       <<"r","u","l","e",":">>,
       <<"c","o","n","s","t","r","a","i","n","t",":">>,
       <<"r","e","q","u","i","r","e","m","e","n","t",":">>,
       <<"i","n","s","t","r","u","c","t","i","o","n",":">>,
       <<"t","a","s","k",":">>,
       <<"g","o","a","l",":">>,
       <<"o","b","j","e","c","t","i","v","e",":">>,
       <<"p","u","r","p","o","s","e",":">>,
       <<"f","o","r","m","a","t",":">>,
       <<"o","u","t","p","u","t",":">>,
       <<"r","e","s","p","o","n","d">>,
       <<"r","e","p","l","y">>,
       <<"a","n","s","w","e","r">>,
       <<"t","h","i","n","k">>,
       <<"a","n","a","l","y","z","e">>,
       <<"c","o","n","s","i","d","e","r">>,
       <<"e","v","a","l","u","a","t","e">>,
       <<"s","t","e","p"," ","1">>,
       <<"s","t","e","p"," ","2">>,
       <<"f","i","r","s","t",",">>,
       <<"t","h","e","n",",">>,
       <<"f","i","n","a","l","l","y",",">>,
       <<"n","e","x","t",",">>,
       <<"1",".">>,
       <<"2",".">>,
       <<"3",".">>,
       <<"4",".">>,
       <<"5",".">>,
       <<"-">>,
       <<"*">>,
       <<"U+00E2","U+20AC","U+00A2">>
    >>

\* the role names of ROLE_PATTERNS: (system|user|assistant|human|ai), and bot
RoleNames ==
    <<Str(<<"s","y","s","t","e","m">>), Str(<<"u","s","e","r">>),
      Str(<<"a","s","s","i","s","t","a","n","t">>), Str(<<"h","u","m","a","n">>),
      Str(<<"a","i">>)>>

\* ROLE_PATTERNS
ROLE_PATTERNS ==
    << \* ^(system|user|assistant|human|ai|bot):\s*
       Cat(<<Bol, Grp(Alt(RoleNames \o <<Str(<<"b","o","t">>)>>)), Lit(":"),
             Star(Space)>>),
       \* ^<(system|user|assistant|human|ai)>
       Cat(<<Bol, Lit("<"), Grp(Alt(RoleNames)), Lit(">")>>),
       \* ^\[(system|user|assistant|human|ai)\]
       Cat(<<Bol, Lit("["), Grp(Alt(RoleNames)), Lit("]")>>) >>

\* EXAMPLE_PATTERNS
EXAMPLE_PATTERNS ==
    << \* ^example\s*\d*:?\s*$
       Cat(<<Bol, Str(<<"e","x","a","m","p","l","e">>), Star(Space), Star(Digit),
             Opt(Lit(":")), Star(Space), Eol>>),
       \* ^input:\s*$
       Cat(<<Bol, Str(<<"i","n","p","u","t",":">>), Star(Space), Eol>>),
       \* ^output:\s*$
       Cat(<<Bol, Str(<<"o","u","t","p","u","t",":">>), Star(Space), Eol>>),
       \* ^expected:\s*$
       Cat(<<Bol, Str(<<"e","x","p","e","c","t","e","d",":">>), Star(Space), Eol>>),
       \* ^sample:\s*$
       Cat(<<Bol, Str(<<"s","a","m","p","l","e",":">>), Star(Space), Eol>>),
       \* ^ followed by three backticks
       Cat(<<Bol, Str(<<BackTick, BackTick, BackTick>>)>>) >>

\* the signature patterns of detect_template_syntax, in dict order
SYNTAX_PATTERNS ==
    << \* \{\{.*?\}\}|\{%.*?%\}
       [syntax |-> "jinja2",
        re |-> Alt(<<Cat(<<Lit("{"), Lit("{"), LazyStar(Dot), Lit("}"), Lit("}")>>),
                     Cat(<<Lit("{"), Lit("%"), LazyStar(Dot), Lit("%"), Lit("}")>>)>>)],
       \* \{\{\{?[^{].*?\}\}\}?
       [syntax |-> "mustache",
        re |-> Cat(<<Lit("{"), Lit("{"), Opt(Lit("{")), NotCls({"{"}), LazyStar(Dot),
                     Lit("}"), Lit("}"), Opt(Lit("}"))>>)],
       \* \{[a-zA-Z_][a-zA-Z0-9_]*\}
       [syntax |-> "fstring",
        re |-> Cat(<<Lit("{"), IdStart, Star(IdChar), Lit("}")>>)],
       \* \$[{a-zA-Z_]
       [syntax |-> "shell",
        re |-> Cat(<<Lit("$"), Cls(IdStart.s \cup {"{"})>>)],
       \* <[A-Z_]+(?:\s*/>|>)
       [syntax |-> "xml",
        re |-> Cat(<<Lit("<"), Plus(UpStart),
                     Alt(<<Cat(<<Star(Space), Lit("/"), Lit(">")>>), Lit(">")>>)>>)],
       \* \[\[?[A-Z_]+\]?\]
       [syntax |-> "placeholder",
        re |-> Cat(<<Lit("["), Opt(Lit("[")), Plus(UpStart), Opt(Lit("]")),
                     Lit("]")>>)] >>

(***************************************************************************)
(* parser.py: the classifiers and extractors.                              *)
(***************************************************************************)
\* detect_template_syntax(text): the dialect with the most matches, the first
\* declared on a tie, "plain" when nothing matches
detect_template_syntax(txt) ==
    LET syntax_counts == AsSeq([k \in DOMAIN SYNTAX_PATTERNS |->
                                   Len(FindIter(SYNTAX_PATTERNS[k].re, txt))])
        best == CHOOSE k \in DOMAIN SYNTAX_PATTERNS :
                    /\ \A m \in DOMAIN SYNTAX_PATTERNS :
                           syntax_counts[m] <= syntax_counts[k]
                    /\ \A m \in 1..(k - 1) : syntax_counts[m] < syntax_counts[k]
    IN IF \A k \in DOMAIN SYNTAX_PATTERNS : syntax_counts[k] = 0
       THEN "plain"
       ELSE SYNTAX_PATTERNS[best].syntax

\* list.sort(key=start): a stable insertion sort by start offset
RECURSIVE SortByStart(_)
SortByStart(ms) ==
    IF Len(ms) <= 1 THEN ms
    ELSE LET rest == SortByStart(Slice(ms, 1, Len(ms) - 1))
             x == ms[Len(ms)]
             keep == SelectSeq(rest, LAMBDA m : m.start <= x.start)
             after == SelectSeq(rest, LAMBDA m : m.start > x.start)
         IN keep \o <<x>> \o after

\* extract_variables(text): every match of every pattern, sorted by position
extract_variables(txt) ==
    SortByStart(Flatten(AsSeq([k \in DOMAIN VARIABLE_PATTERNS |->
        LET ms == FindIter(VARIABLE_PATTERNS[k].re, txt)
        IN AsSeq([n \in DOMAIN ms |->
               [name |-> ms[n].group1, syntax |-> VARIABLE_PATTERNS[k].syntax,
                start |-> ms[n].start, end |-> ms[n].end]])])))

\* is_instruction_line(line)
is_instruction_line(line) ==
    LET line_lower == Strip(Lower(line))
    IN \E k \in DOMAIN INSTRUCTION_KEYWORDS :
           StartsWith(line_lower, INSTRUCTION_KEYWORDS[k])

\* is_role_marker(line): (True, role) of the first pattern that matches,
\* (False, None) otherwise; None is the empty sequence here
is_role_marker(line) ==
    IF \E k \in DOMAIN ROLE_PATTERNS : ReMatches(ROLE_PATTERNS[k], line, TRUE)
    THEN LET k == CHOOSE n \in DOMAIN ROLE_PATTERNS :
                      /\ ReMatches(ROLE_PATTERNS[n], line, TRUE)
                      /\ \A m \in 1..(n - 1) : ~ReMatches(ROLE_PATTERNS[m], line, TRUE)
         IN <<TRUE, Lower(ReGroup1(ROLE_PATTERNS[k], line, TRUE))>>
    ELSE <<FALSE, <<>>>>

\* is_example_marker(line)
is_example_marker(line) ==
    LET line_lower == Strip(Lower(line))
    IN \E k \in DOMAIN EXAMPLE_PATTERNS :
           ReMatches(EXAMPLE_PATTERNS[k], line_lower, TRUE)

(***************************************************************************)
(* parser.py: parse_prompt.  The locals of parse_prompt are the fields of  *)
(* one record st; an element is a record with the fields of PromptElement. *)
(***************************************************************************)
\* Python's None (current_element_type before a run is open)
None == "None"
\* PromptType
TEXT == "text"
INSTRUCTION == "instruction"
EXAMPLE == "example"
ROLE == "role"
COMMENT == "comment"
WHITESPACE == "whitespace"

\* the empty dict {} (PromptElement.__post_init__ for metadata=None)
EmptyDict == [k \in {} |-> k]

\* PromptElement(type, content, line_start, line_end, raw, metadata)
PromptElement(type, content, line_start, line_end, raw, metadata) ==
    [type |-> type, content |-> content, line_start |-> line_start,
     line_end |-> line_end, raw |-> raw, metadata |-> metadata]

\* a faulty ParseStart, which SyntaxOnFlushedElements must reject: the syntax
\* of the document is not detected
ParseStart_SyntaxPlain(txt) ==
    [elements |-> <<>>,
     syntax |-> "plain",
     in_example |-> FALSE,
     in_code_block |-> FALSE,
     current_element_lines |-> <<>>,
     current_element_type |-> None,
     element_start_line |-> 0]

\* the locals of parse_prompt before the loop over the lines
ParseStart(txt) ==
    [elements |-> <<>>,
     syntax |-> detect_template_syntax(txt),
     in_example |-> FALSE,
     in_code_block |-> FALSE,
     current_element_lines |-> <<>>,
     current_element_type |-> None,
     element_start_line |-> 0]

\* a faulty flush_element, which SegmentsPartitionLines must reject: the
\* element ends one line past its run
flush_element_EndPastRun(st) ==
    IF Len(st.current_element_lines) > 0
    THEN LET content == Join(st.current_element_lines, <<"\n">>)
         IN [st EXCEPT
               !.elements = Append(@, PromptElement(
                   IF st.current_element_type # None
                   THEN st.current_element_type ELSE TEXT,
                   content,
                   st.element_start_line,
                   st.element_start_line + Len(st.current_element_lines),
                   content,
                   [syntax |-> st.syntax])),
               !.current_element_lines = <<>>,
               !.current_element_type = None]
    ELSE st

\* flush_element(): emit the open run, if any, as one element
flush_element(st) ==
    IF Len(st.current_element_lines) > 0
    THEN LET content == Join(st.current_element_lines, <<"\n">>)
         IN [st EXCEPT
               !.elements = Append(@, PromptElement(
                   IF st.current_element_type # None
                   THEN st.current_element_type ELSE TEXT,
                   content,
                   st.element_start_line,
                   st.element_start_line + Len(st.current_element_lines) - 1,
                   content,
                   [syntax |-> st.syntax])),
               !.current_element_lines = <<>>,
               !.current_element_type = None]
    ELSE st

\* a faulty LineBranch, which FenceSwallowsLines must reject: a line inside a
\* code block is classified like one outside
LineBranch_NoCodeBlock(st, line) ==
    LET stripped == Strip(line)
    IN IF StartsWith(stripped, <<BackTick, BackTick, BackTick>>) THEN "fence"
       ELSE IF is_role_marker(stripped)[1] THEN "role"
       ELSE IF StartsWith(stripped, <<"#">>) \/ StartsWith(stripped, <<"/", "/">>)
            THEN "comment"
       ELSE IF is_example_marker(stripped) THEN "example"
       ELSE IF is_instruction_line(stripped) /\ ~st.in_example THEN "instruction"
       ELSE IF Len(stripped) = 0 THEN "blank"
       ELSE "text"

\* which branch of the loop body takes the line
LineBranch(st, line) ==
    LET stripped == Strip(line)
    IN IF StartsWith(stripped, <<BackTick, BackTick, BackTick>>) THEN "fence"
       ELSE IF st.in_code_block THEN "code"
       ELSE IF is_role_marker(stripped)[1] THEN "role"
       ELSE IF StartsWith(stripped, <<"#">>) \/ StartsWith(stripped, <<"/", "/">>)
            THEN "comment"
       ELSE IF is_example_marker(stripped) THEN "example"
       ELSE IF is_instruction_line(stripped) /\ ~st.in_example THEN "instruction"
       ELSE IF Len(stripped) = 0 THEN "blank"
       ELSE "text"

\* a code fence line: toggle the code block, which opens or closes an Example
FenceLine(st, i, line) ==
    LET toggled == [st EXCEPT !.in_code_block = ~@]
        opened == IF toggled.in_code_block
                  THEN [flush_element(toggled) EXCEPT
                          !.element_start_line = i,
                          !.current_element_type = EXAMPLE]
                  ELSE toggled
        appended == [opened EXCEPT !.current_element_lines = Append(@, line)]
    IN IF ~appended.in_code_block THEN flush_element(appended) ELSE appended

\* a line inside a code block
CodeLine(st, i, line) ==
    [st EXCEPT !.current_element_lines = Append(@, line)]

\* a role marker line
RoleLine(st, i, line) ==
    LET role_name == is_role_marker(Strip(line))[2]
        flushed == flush_element(st)
    IN [flushed EXCEPT
          !.elements = Append(@, PromptElement(ROLE, role_name, i, i, line,
                                               [role |-> role_name]))]

\* a comment line
CommentLine(st, i, line) ==
    LET flushed == flush_element(st)
    IN [flushed EXCEPT
          !.elements = Append(@, PromptElement(COMMENT,
                                   LStrip(Strip(line), {"#", "/", " "}),
                                   i, i, line, EmptyDict))]

\* an example marker line
ExampleLine(st, i, line) ==
    [flush_element(st) EXCEPT
       !.in_example = TRUE,
       !.element_start_line = i,
       !.current_element_type = EXAMPLE,
       !.current_element_lines = Append(@, line)]

\* an instruction line outside an example
InstructionLine(st, i, line) ==
    LET opened == IF st.current_element_type # INSTRUCTION
                  THEN [flush_element(st) EXCEPT
                          !.element_start_line = i,
                          !.current_element_type = INSTRUCTION]
                  ELSE st
    IN [opened EXCEPT !.current_element_lines = Append(@, line)]

\* a faulty BlankLine, which EmptyOldAllAdded must reject: a leading empty
\* line is emitted as a Whitespace element too
BlankLine_EmitsLeading(st, i, line) ==
    LET handled ==
            IF Len(st.current_element_lines) > 0
            THEN [st EXCEPT !.current_element_lines = Append(@, line)]
            ELSE [st EXCEPT
                    !.elements = Append(@, PromptElement(WHITESPACE, <<>>, i, i,
                                                         line, EmptyDict))]
    IN [handled EXCEPT !.in_example = FALSE]

\* an empty line
BlankLine(st, i, line) ==
    LET handled ==
            IF Len(st.current_element_lines) > 0
            THEN [st EXCEPT !.current_element_lines = Append(@, line)]
            ELSE IF Len(st.elements) > 0
            THEN [st EXCEPT
                    !.elements = Append(@, PromptElement(WHITESPACE, <<>>, i, i,
                                                         line, EmptyDict))]
            ELSE st
    IN [handled EXCEPT !.in_example = FALSE]

\* any other line
TextLine(st, i, line) ==
    LET opened == IF st.current_element_type = None
                  THEN [st EXCEPT !.current_element_type = TEXT,
                                  !.element_start_line = i]
                  ELSE st
    IN [opened EXCEPT !.current_element_lines = Append(@, line)]

\* one pass of the loop body, for line number i
ParseLine(st, i, line) ==
    LET b == LineBranch(st, line)
    IN CASE b = "fence" -> FenceLine(st, i, line)
         [] b = "code" -> CodeLine(st, i, line)
         [] b = "role" -> RoleLine(st, i, line)
         [] b = "comment" -> CommentLine(st, i, line)
         [] b = "example" -> ExampleLine(st, i, line)
         [] b = "instruction" -> InstructionLine(st, i, line)
         [] b = "blank" -> BlankLine(st, i, line)
         [] b = "text" -> TextLine(st, i, line)

\* the loop over the lines, from line number i on
RECURSIVE ParseLines(_, _, _)
ParseLines(st, lines, i) ==
    IF i >= Len(lines) THEN st
    ELSE ParseLines(ParseLine(st, i, lines[i + 1]), lines, i + 1)

\* a faulty annotation, which VariablesOnContentElements must reject: the
\* elements of every type are annotated
AnnotateElement_AnyType(element) ==
    LET vs == extract_variables(element.content)
    IN IF Len(vs) > 0
       THEN [element EXCEPT !.metadata =
                [k \in DOMAIN element.metadata \cup {"variables"} |->
                    IF k = "variables"
                    THEN AsSeq([n \in DOMAIN vs |-> vs[n].name])
                    ELSE element.metadata[k]]]
       ELSE element

\* the annotation of one element with the variables of its content
AnnotateElement(element) ==
    IF element.type \in {TEXT, INSTRUCTION, EXAMPLE}
    THEN LET vs == extract_variables(element.content)
         IN IF Len(vs) > 0
            THEN [element EXCEPT !.metadata =
                     [k \in DOMAIN element.metadata \cup {"variables"} |->
                         IF k = "variables"
                         THEN AsSeq([n \in DOMAIN vs |-> vs[n].name])
                         ELSE element.metadata[k]]]
            ELSE element
    ELSE element

\* the annotation loop over all elements
AnnotateVariables(elements) ==
    AsSeq([k \in DOMAIN elements |-> AnnotateElement(elements[k])])

\* parse_prompt(text)
parse_prompt(txt) ==
    LET lines == Split(txt, "\n")
        looped == ParseLines(ParseStart(txt), lines, 0)
    IN AnnotateVariables(flush_element(looped).elements)

\* get_all_variables(elements)
get_all_variables(elements) ==
    UNION {{elements[k].metadata.variables[n] :
               n \in DOMAIN elements[k].metadata.variables} :
           k \in {m \in DOMAIN elements : "variables" \in DOMAIN elements[m].metadata}}

(***************************************************************************)
(* differ.py: compute_similarity.  A float in [0, 1] is the fraction       *)
(* num/den, unreduced; fractions are compared by cross-multiplication.     *)
(* difflib.SequenceMatcher is modelled without its junk heuristic, which   *)
(* needs a second string of 200 characters or more.                        *)
(***************************************************************************)
Frac(num, den) == [num |-> num, den |-> den]
\* the floats 1.0, 0.0 and 0.5
One == Frac(1, 1)
Zero == Frac(0, 1)
Half == Frac(1, 2)
\* x > y, x == y, x <= y on floats
FracGt(x, y) == x.num * y.den > y.num * x.den
FracEq(x, y) == x.num * y.den = y.num * x.den
FracLe(x, y) == x.num * y.den <= y.num * x.den

\* SequenceMatcher.find_longest_match, the rows i..ahi-1 of its loop: j2len[j]
\* is the length of the longest match ending with a[i-1] and b[j-1] (offsets
\* 0-based, ranges half-open; j2len is kept as the sequence of its values for
\* j = blo..bhi-1); a longer match replaces the best so far, so of the longest
\* matches the one earliest in a, then earliest in b, is kept
RECURSIVE LongestFrom(_, _, _, _, _, _, _, _)
LongestFrom(a, b, i, ahi, blo, bhi, j2len, best) ==
    IF i >= ahi THEN best
    ELSE LET newj2len == AsSeq([n \in 1..(bhi - blo) |->
                             IF b[blo + n] = a[i + 1]
                             THEN (IF n > 1 THEN j2len[n - 1] ELSE 0) + 1
                             ELSE 0])
             kmax == IF blo >= bhi THEN 0
                     ELSE CHOOSE m \in {newj2len[n] : n \in DOMAIN newj2len} :
                              \A n \in DOMAIN newj2len : newj2len[n] <= m
             nmax == CHOOSE n \in DOMAIN newj2len :
                         /\ newj2len[n] = kmax
                         /\ \A m \in 1..(n - 1) : newj2len[m] < kmax
             newbest == IF kmax > best.size
                        THEN [i |-> i - kmax + 1,
                              j |-> (blo + nmax - 1) - kmax + 1,
                              size |-> kmax]
                        ELSE best
         IN LongestFrom(a, b, i + 1, ahi, blo, bhi, newj2len, newbest)

\* SequenceMatcher.find_longest_match(alo, ahi, blo, bhi)
find_longest_match(a, b, alo, ahi, blo, bhi) ==
    LongestFrom(a, b, alo, ahi, blo, bhi, AsSeq([n \in 1..(bhi - blo) |-> 0]),
                [i |-> alo, j |-> blo, size |-> 0])

\* the total size of SequenceMatcher.get_matching_blocks() within the two
\* ranges: the longest match, then the same to its left and to its right
RECURSIVE MatchTotal(_, _, _, _, _, _)
MatchTotal(a, b, alo, ahi, blo, bhi) ==
    LET m == find_longest_match(a, b, alo, ahi, blo, bhi)
    IN IF m.size = 0 THEN 0
       ELSE m.size
            + (IF alo < m.i /\ blo < m.j
               THEN MatchTotal(a, b, alo, m.i, blo, m.j) ELSE 0)
            + (IF m.i + m.size < ahi /\ m.j + m.size < bhi
               THEN MatchTotal(a, b, m.i + m.size, ahi, m.j + m.size, bhi) ELSE 0)

\* SequenceMatcher(None, a, b).ratio(): 2.0 * matches / (len(a) + len(b))
Ratio(a, b) ==
    IF Len(a) + Len(b) = 0 THEN One
    ELSE Frac(2 * MatchTotal(a, b, 0, Len(a), 0, Len(b)), Len(a) + Len(b))

\* a faulty compute_similarity, which SimilarityValues must reject: the two
\* tests for empty strings are taken in the other order
compute_similarity_EmptyFirst(old_txt, new_txt) ==
    IF Len(old_txt) = 0 \/ Len(new_txt) = 0 THEN Zero
    ELSE IF Len(old_txt) = 0 /\ Len(new_txt) = 0 THEN One
    ELSE Ratio(old_txt, new_txt)

\* compute_similarity(old_text, new_text)
compute_similarity(old_txt, new_txt) ==
    IF Len(old_txt) = 0 /\ Len(new_txt) = 0 THEN One
    ELSE IF Len(old_txt) = 0 \/ Len(new_txt) = 0 THEN Zero
    ELSE Ratio(old_txt, new_txt)

(***************************************************************************)
(* differ.py: align_elements.  The locals aligned, old_used and new_used   *)
(* are the fields of one record al; an aligned pair is <<old, new>> with   *)
(* NoElem for None; old_filtered and new_filtered hold (index, element).   *)
(***************************************************************************)
\* None in an aligned pair
NoElem == [type |-> None]

\* a faulty filter, which AlignmentTotal must reject: Whitespace elements
\* are kept
Filtered_KeepWhitespace(elements) ==
    AsSeq([n \in DOMAIN elements |-> [idx |-> n, elem |-> elements[n]]])

\* [(i, e) for i, e in enumerate(elements) if e.type != WHITESPACE]
Filtered(elements) ==
    LET idx == SelectSeq(AsSeq([n \in DOMAIN elements |-> n]),
                         LAMBDA n : elements[n].type # WHITESPACE)
    IN AsSeq([n \in DOMAIN idx |-> [idx |-> idx[n], elem |-> elements[idx[n]]]])

\* the locals of align_elements before the first pass
AlignStart == [aligned |-> <<>>, old_used |-> {}, new_used |-> {}]

\* a faulty first pass, which ExactPassFirstFit must reject: the last unused
\* old element of the same type and content is taken, not the first
ExactStep_LastFit(al, old_filtered, new) ==
    LET hits == {n \in DOMAIN old_filtered :
                    /\ old_filtered[n].idx \notin al.old_used
                    /\ old_filtered[n].elem.type = new.elem.type
                    /\ old_filtered[n].elem.content = new.elem.content}
    IN IF hits = {} THEN al
       ELSE LET n == CHOOSE h \in hits : \A g \in hits : h >= g
            IN [aligned |-> Append(al.aligned, <<old_filtered[n].elem, new.elem>>),
                old_used |-> al.old_used \cup {old_filtered[n].idx},
                new_used |-> al.new_used \cup {new.idx}]

\* a faulty first pass, which UnchangedExactModifiedSimilar must reject: the
\* types of the two elements are not compared
ExactStep_AnyType(al, old_filtered, new) ==
    LET hits == {n \in DOMAIN old_filtered :
                    /\ old_filtered[n].idx \notin al.old_used
                    /\ old_filtered[n].elem.content = new.elem.content}
    IN IF hits = {} THEN al
       ELSE LET n == CHOOSE h \in hits : \A g \in hits : h <= g
            IN [aligned |-> Append(al.aligned, <<old_filtered[n].elem, new.elem>>),
                old_used |-> al.old_used \cup {old_filtered[n].idx},
                new_used |-> al.new_used \cup {new.idx}]

\* a faulty first pass, which SelfDiffUnchanged must reject: an old element
\* already paired is paired again
ExactStep_Reuse(al, old_filtered, new) ==
    LET hits == {n \in DOMAIN old_filtered :
                    /\ old_filtered[n].elem.type = new.elem.type
                    /\ old_filtered[n].elem.content = new.elem.content}
    IN IF hits = {} THEN al
       ELSE LET n == CHOOSE h \in hits : \A g \in hits : h <= g
            IN [aligned |-> Append(al.aligned, <<old_filtered[n].elem, new.elem>>),
                old_used |-> al.old_used \cup {old_filtered[n].idx},
                new_used |-> al.new_used \cup {new.idx}]

\* first pass, one new element: pair it with the first unused old element
\* of the same type and content
ExactStep(al, old_filtered, new) ==
    LET hits == {n \in DOMAIN old_filtered :
                    /\ old_filtered[n].idx \notin al.old_used
                    /\ old_filtered[n].elem.type = new.elem.type
                    /\ old_filtered[n].elem.content = new.elem.content}
    IN IF hits = {} THEN al
       ELSE LET n == CHOOSE h \in hits : \A g \in hits : h <= g
            IN [aligned |-> Append(al.aligned, <<old_filtered[n].elem, new.elem>>),
                old_used |-> al.old_used \cup {old_filtered[n].idx},
                new_used |-> al.new_used \cup {new.idx}]

\* a faulty scan, which SimilarPassBestFit must reject: a score that equals
\* the best so far replaces it
RECURSIVE BestMatch_LastBest(_, _, _, _, _)
BestMatch_LastBest(al, old_filtered, new, n, best) ==
    IF n > Len(old_filtered) THEN best
    ELSE LET old == old_filtered[n]
             score == compute_similarity(old.elem.content, new.elem.content)
         IN BestMatch_LastBest(al, old_filtered, new, n + 1,
                IF /\ old.idx \notin al.old_used
                   /\ old.elem.type = new.elem.type
                   /\ FracLe(best.best_score, score)
                THEN [best_score |-> score, best_match |-> n]
                ELSE best)

\* second pass, the scan of the old elements from position n on:
\* best is (best_score, best_match), best_match 0 for None
RECURSIVE BestMatch(_, _, _, _, _)
BestMatch(al, old_filtered, new, n, best) ==
    IF n > Len(old_filtered) THEN best
    ELSE LET old == old_filtered[n]
             score == compute_similarity(old.elem.content, new.elem.content)
         IN BestMatch(al, old_filtered, new, n + 1,
                IF /\ old.idx \notin al.old_used
                   /\ old.elem.type = new.elem.type
                   /\ FracGt(score, best.best_score)
                THEN [best_score |-> score, best_match |-> n]
                ELSE best)

\* second pass, one new element: pair it with the most similar unused old
\* element of the same type, if that scores above the threshold
SimilarStep(al, old_filtered, new) ==
    IF new.idx \in al.new_used THEN al
    ELSE LET best == BestMatch(al, old_filtered, new, 1,
                               [best_score |-> Half, best_match |-> 0])
         IN IF best.best_match # 0
            THEN [aligned |-> Append(al.aligned,
                                 <<old_filtered[best.best_match].elem, new.elem>>),
                  old_used |-> al.old_used \cup {old_filtered[best.best_match].idx},
                  new_used |-> al.new_used \cup {new.idx}]
            ELSE al

\* a faulty end of align_elements, which AlignedOrder must reject: the
\* remaining new elements are appended before the remaining old ones
Remaining_AddedFirst(al, old_filtered, new_filtered) ==
    LET removed == SelectSeq(old_filtered, LAMBDA o : o.idx \notin al.old_used)
        added == SelectSeq(new_filtered, LAMBDA n : n.idx \notin al.new_used)
    IN [al EXCEPT !.aligned =
           @ \o [n \in DOMAIN added |-> <<NoElem, added[n].elem>>]
             \o [n \in DOMAIN removed |-> <<removed[n].elem, NoElem>>]]

\* the remaining old elements (removed), then the remaining new ones (added)
Remaining(al, old_filtered, new_filtered) ==
    LET removed == SelectSeq(old_filtered, LAMBDA o : o.idx \notin al.old_used)
        added == SelectSeq(new_filtered, LAMBDA n : n.idx \notin al.new_used)
    IN [al EXCEPT !.aligned =
           @ \o [n \in DOMAIN removed |-> <<removed[n].elem, NoElem>>]
             \o [n \in DOMAIN added |-> <<NoElem, added[n].elem>>]]

\* the first pass over new_filtered, from position n on
RECURSIVE ExactFrom(_, _, _, _)
ExactFrom(al, old_filtered, new_filtered, n) ==
    IF n > Len(new_filtered) THEN al
    ELSE ExactFrom(ExactStep(al, old_filtered, new_filtered[n]),
                   old_filtered, new_filtered, n + 1)

\* the second pass over new_filtered, from position n on
RECURSIVE SimilarFrom(_, _, _, _)
SimilarFrom(al, old_filtered, new_filtered, n) ==
    IF n > Len(new_filtered) THEN al
    ELSE SimilarFrom(SimilarStep(al, old_filtered, new_filtered[n]),
                     old_filtered, new_filtered, n + 1)

\* align_elements(old_elements, new_elements)
align_elements(old_elements, new_elements) ==
    LET old_filtered == Filtered(old_elements)
        new_filtered == Filtered(new_elements)
        exact == ExactFrom(AlignStart, old_filtered, new_filtered, 1)
        similar == SimilarFrom(exact, old_filtered, new_filtered, 1)
    IN Remaining(similar, old_filtered, new_filtered).aligned

(***************************************************************************)
(* differ.py: diff_prompts.                                                *)
(***************************************************************************)
\* ChangeType
ADDED == "added"
REMOVED == "removed"
MODIFIED == "modified"
UNCHANGED_ == "unchanged"

\* None for an Optional[str] and for an Optional[int] field of ElementDiff
NoneStr == <<None>>
NoneInt == -1

\* a faulty classification, which FourWayClassification must reject: a
\* Modified diff carries no similarity
ElementDiffOf_NoDetails(old_elem, new_elem) ==
    IF old_elem = NoElem
    THEN [change_type |-> ADDED, element_type |-> new_elem.type,
          old_content |-> NoneStr, new_content |-> new_elem.content,
          old_line |-> NoneInt, new_line |-> new_elem.line_start,
          details |-> EmptyDict]
    ELSE IF new_elem = NoElem
    THEN [change_type |-> REMOVED, element_type |-> old_elem.type,
          old_content |-> old_elem.content, new_content |-> NoneStr,
          old_line |-> old_elem.line_start, new_line |-> NoneInt,
          details |-> EmptyDict]
    ELSE [change_type |-> IF old_elem.content = new_elem.content
                          THEN UNCHANGED_ ELSE MODIFIED,
          element_type |-> old_elem.type,
          old_content |-> old_elem.content, new_content |-> new_elem.content,
          old_line |-> old_elem.line_start, new_line |-> new_elem.line_start,
          details |-> EmptyDict]

\* the ElementDiff of one aligned pair
ElementDiffOf(old_elem, new_elem) ==
    IF old_elem = NoElem
    THEN [change_type |-> ADDED, element_type |-> new_elem.type,
          old_content |-> NoneStr, new_content |-> new_elem.content,
          old_line |-> NoneInt, new_line |-> new_elem.line_start,
          details |-> EmptyDict]
    ELSE IF new_elem = NoElem
    THEN [change_type |-> REMOVED, element_type |-> old_elem.type,
          old_content |-> old_elem.content, new_content |-> NoneStr,
          old_line |-> old_elem.line_start, new_line |-> NoneInt,
          details |-> EmptyDict]
    ELSE IF old_elem.content = new_elem.content
    THEN [change_type |-> UNCHANGED_, element_type |-> old_elem.type,
          old_content |-> old_elem.content, new_content |-> new_elem.content,
          old_line |-> old_elem.line_start, new_line |-> new_elem.line_start,
          details |-> EmptyDict]
    ELSE [change_type |-> MODIFIED, element_type |-> old_elem.type,
          old_content |-> old_elem.content, new_content |-> new_elem.content,
          old_line |-> old_elem.line_start, new_line |-> new_elem.line_start,
          details |-> [similarity |->
                          compute_similarity(old_elem.content, new_elem.content)]]

\* the loop over the aligned pairs
ElementDiffs(aligned) ==
    AsSeq([n \in DOMAIN aligned |-> ElementDiffOf(aligned[n][1], aligned[n][2])])

\* a faulty DiffResult, which VariableDiffSymmetry must reject: every
\* variable of the new text counts as added
DiffResult_AddedAllNew(old_txt, new_txt, old_elements, new_elements, element_diffs) ==
    LET old_variables == get_all_variables(old_elements)
        new_variables == get_all_variables(new_elements)
    IN [old_path |-> "old", new_path |-> "new",
        element_diffs |-> element_diffs,
        old_variables |-> old_variables,
        new_variables |-> new_variables,
        added_variables |-> new_variables,
        removed_variables |-> old_variables \ new_variables,
        similarity |-> compute_similarity(old_txt, new_txt)]

\* the DiffResult diff_prompts returns
DiffResult(old_txt, new_txt, old_elements, new_elements, element_diffs) ==
    LET old_variables == get_all_variables(old_elements)
        new_variables == get_all_variables(new_elements)
    IN [old_path |-> "old", new_path |-> "new",
        element_diffs |-> element_diffs,
        old_variables |-> old_variables,
        new_variables |-> new_variables,
        added_variables |-> new_variables \ old_variables,
        removed_variables |-> old_variables \ new_variables,
        similarity |-> compute_similarity(old_txt, new_txt)]

\* diff_prompts(old_text, new_text)
diff_prompts(old_txt, new_txt) ==
    LET old_elements == parse_prompt(old_txt)
        new_elements == parse_prompt(new_txt)
    IN DiffResult(old_txt, new_txt, old_elements, new_elements,
                  ElementDiffs(align_elements(old_elements, new_elements)))

\* DiffResult.has_changes
has_changes(r) ==
    \E k \in DOMAIN r.element_diffs : r.element_diffs[k].change_type # UNCHANGED_

(***************************************************************************)
(* State.                                                                  *)
(*   text, lines, i, st: one call of parse_prompt, its loop taken one line *)
(*     at a time (SpecParse);                                              *)
(*   old_text, new_text, old_elements, new_elements, al, k, result: one    *)
(*     call of diff_prompts, the passes of align_elements taken one new    *)
(*     element at a time (Spec);                                           *)
(*   old_text, new_text, score: one call of compute_similarity (SpecSim);  *)
(*   pc: where the call is.                                                *)
(***************************************************************************)
VARIABLES text, lines, i, st, old_text, new_text, old_elements, new_elements,
          al, k, result, score, pc

vars == <<text, lines, i, st, old_text, new_text, old_elements, new_elements,
          al, k, result, score, pc>>

parseVars == <<text, lines, i, st>>
diffVars == <<old_elements, new_elements, al, k, result>>

\* the values of the variables a specification does not use
NoParse ==
    /\ text = <<>>
    /\ lines = <<>>
    /\ i = 0
    /\ st = [elements |-> <<>>]
NoDiff ==
    /\ old_elements = <<>>
    /\ new_elements = <<>>
    /\ al = AlignStart
    /\ k = 0
    /\ result = EmptyDict
NoScore == score = Zero

\* the texts of at most n lines over a set of lines
TextsOver(vocab, n) ==
    {Join(ls, <<"\n">>) : ls \in UNION {[1..m -> vocab] : m \in 1..n}}

(***************************************************************************)
(* SpecParse: parse_prompt on every text of at most MaxLines lines.        *)
(***************************************************************************)
\* the lines a segmented text is made of: one line for every branch of the
\* loop body, the role and the comment with a template variable on the line,
\* and a text line with a template variable
LineVocab ==
    { <<BackTick, BackTick, BackTick>>,
      <<"a", "i", ":", "{", "n", "}">>,
      <<"#", "{", "n", "}">>,
      <<"i", "n", "p", "u", "t", ":">>,
      <<"-", "a">>,
      <<>>,
      <<"a">>,
      <<"{", "n", "}">> }

\* where the loop is: at the branch of the loop body that line number n
\* takes, or past the last line
LoopPc(s, ls, n) ==
    IF n < Len(ls) THEN LineBranch(s, ls[n + 1]) ELSE "flush"

\* parse_prompt(text) up to the loop: the text is split and the locals are set
InitParse ==
    /\ text \in TextsOver(LineVocab, MaxLines)
    /\ lines = Split(text, "\n")
    /\ i = 0
    /\ st = ParseStart(text)
    /\ pc = LoopPc(st, lines, i)
    /\ old_text = <<>>
    /\ new_text = <<>>
    /\ NoDiff
    /\ NoScore

\* on to the next line
Advance ==
    /\ i' = i + 1
    /\ pc' = LoopPc(st', lines, i')
    /\ UNCHANGED <<text, lines, old_text, new_text, diffVars, score>>

Fence == pc = "fence" /\ st' = FenceLine(st, i, lines[i + 1]) /\ Advance

Code == pc = "code" /\ st' = CodeLine(st, i, lines[i + 1]) /\ Advance

Role == pc = "role" /\ st' = RoleLine(st, i, lines[i + 1]) /\ Advance

Comment == pc = "comment" /\ st' = CommentLine(st, i, lines[i + 1]) /\ Advance

Example == pc = "example" /\ st' = ExampleLine(st, i, lines[i + 1]) /\ Advance

Instruction ==
    pc = "instruction" /\ st' = InstructionLine(st, i, lines[i + 1]) /\ Advance

Blank == pc = "blank" /\ st' = BlankLine(st, i, lines[i + 1]) /\ Advance

Text == pc = "text" /\ st' = TextLine(st, i, lines[i + 1]) /\ Advance

\* after the loop: flush any remaining element
FinalFlush ==
    /\ pc = "flush"
    /\ st' = flush_element(st)
    /\ pc' = "annotate"
    /\ UNCHANGED <<text, lines, i, old_text, new_text, diffVars, score>>

\* the annotation loop, and the return
Annotate ==
    /\ pc = "annotate"
    /\ st' = [st EXCEPT !.elements = AnnotateVariables(@)]
    /\ pc' = "done"
    /\ UNCHANGED <<text, lines, i, old_text, new_text, diffVars, score>>

NextParse ==
    \/ Fence
    \/ Code
    \/ Role
    \/ Comment
    \/ Example
    \/ Instruction
    \/ Blank
    \/ Text
    \/ FinalFlush
    \/ Annotate

SpecParse == InitParse /\ [][NextParse]_vars

(***************************************************************************)
(* Spec: diff_prompts on every two texts of at most MaxDiffLines lines.    *)
(***************************************************************************)
\* the lines the compared texts are made of: a blank line, a text line with
\* a variable, and two comments more than half alike
DiffVocab ==
    { <<>>,
      <<"{", "n", "}">>,
      <<"#", "a", "b">>,
      <<"#", "a", "b", "c">> }

\* the new text of the scenario "" against "system: Hello"
ScenarioTexts ==
    { <<"s", "y", "s", "t", "e", "m", ":", " ", "H", "e", "l", "l", "o">> }

\* the texts compared
DiffTexts == TextsOver(DiffVocab, MaxDiffLines) \cup ScenarioTexts

Init ==
    /\ old_text \in DiffTexts
    /\ new_text \in DiffTexts
    /\ pc = "parse"
    /\ NoParse
    /\ NoDiff
    /\ NoScore

\* where align_elements is once position n of a pass over new_filtered is done
AfterStep(pass, next, new_filtered, n) ==
    IF n < Len(new_filtered) THEN pass ELSE next

\* diff_prompts up to the call of align_elements, and align_elements up to
\* its first pass
ParsePrompts ==
    /\ pc = "parse"
    /\ old_elements' = parse_prompt(old_text)
    /\ new_elements' = parse_prompt(new_text)
    /\ al' = AlignStart
    /\ k' = 1
    /\ pc' = AfterStep("exact", "remaining", Filtered(new_elements'), 0)
    /\ UNCHANGED <<parseVars, old_text, new_text, result, score>>

\* first pass: exact matches, the new element at position k
ExactPass ==
    /\ pc = "exact"
    /\ al' = ExactStep(al, Filtered(old_elements), Filtered(new_elements)[k])
    /\ k' = IF k < Len(Filtered(new_elements)) THEN k + 1 ELSE 1
    /\ pc' = AfterStep("exact", "similar", Filtered(new_elements), k)
    /\ UNCHANGED <<parseVars, old_text, new_text, old_elements, new_elements,
                   result, score>>

\* second pass: similar matches, the new element at position k
SimilarPass ==
    /\ pc = "similar"
    /\ al' = SimilarStep(al, Filtered(old_elements), Filtered(new_elements)[k])
    /\ k' = IF k < Len(Filtered(new_elements)) THEN k + 1 ELSE 1
    /\ pc' = AfterStep("similar", "remaining", Filtered(new_elements), k)
    /\ UNCHANGED <<parseVars, old_text, new_text, old_elements, new_elements,
                   result, score>>

\* the remaining old and new elements, and the return of align_elements
AppendRemaining ==
    /\ pc = "remaining"
    /\ al' = Remaining(al, Filtered(old_elements), Filtered(new_elements))
    /\ pc' = "diff"
    /\ UNCHANGED <<parseVars, old_text, new_text, old_elements, new_elements,
                   k, result, score>>

\* the loop over the aligned pairs, and the return of diff_prompts
BuildDiffs ==
    /\ pc = "diff"
    /\ result' = DiffResult(old_text, new_text, old_elements, new_elements,
                            ElementDiffs(al.aligned))
    /\ pc' = "done"
    /\ UNCHANGED <<parseVars, old_text, new_text, old_elements, new_elements,
                   al, k, score>>

Next ==
    \/ ParsePrompts
    \/ ExactPass
    \/ SimilarPass
    \/ AppendRemaining
    \/ BuildDiffs

Spec == Init /\ [][Next]_vars

(***************************************************************************)
(* SpecSim: compute_similarity on every two strings of at most MaxStrLen   *)
(* characters.                                                             *)
(***************************************************************************)
SimAlphabet == {"a", "b", "c"}

StringsOver(alphabet, n) == UNION {[1..m -> alphabet] : m \in 0..n}

InitSim ==
    /\ old_text \in StringsOver(SimAlphabet, MaxStrLen)
    /\ new_text \in StringsOver(SimAlphabet, MaxStrLen)
    /\ pc = "similarity"
    /\ NoParse
    /\ NoDiff
    /\ NoScore

\* the return of compute_similarity
Return(value) ==
    /\ score' = value
    /\ pc' = "done"
    /\ UNCHANGED <<parseVars, old_text, new_text, diffVars>>

\* if not old_text and not new_text: return 1.0
BothEmpty ==
    /\ pc = "similarity"
    /\ Len(old_text) = 0 /\ Len(new_text) = 0
    /\ Return(compute_similarity(old_text, new_text))

\* if not old_text or not new_text: return 0.0
OneEmpty ==
    /\ pc = "similarity"
    /\ (Len(old_text) = 0) # (Len(new_text) = 0)
    /\ Return(compute_similarity(old_text, new_text))

\* return difflib.SequenceMatcher(None, old_text, new_text).ratio()
BlockRatio ==
    /\ pc = "similarity"
    /\ Len(old_text) > 0 /\ Len(new_text) > 0
    /\ Return(compute_similarity(old_text, new_text))

NextSim ==
    \/ BothEmpty
    \/ OneEmpty
    \/ BlockRatio

SpecSim == InitSim /\ [][NextSim]_vars

(***************************************************************************)
(* SpecAlign: diff_prompts from its call of align_elements on, on every    *)
(* two lists of at most MaxElems elements that parse_prompt returns for    *)
(* texts of comment lines, role lines and blank lines.                     *)
(***************************************************************************)
\* the elements of such lines, without their line numbers: comments of
\* which two score exactly 0.5 against each other ("ai" and "ab"), several
\* score above 0.5 against a third, two of them the same; a role whose
\* content is that of a comment; a blank line
ElemVocab ==
    { [type |-> COMMENT, content |-> <<"a", "i">>, raw |-> <<"#", "a", "i">>,
       metadata |-> EmptyDict],
      [type |-> COMMENT, content |-> <<"a", "b">>, raw |-> <<"#", "a", "b">>,
       metadata |-> EmptyDict],
      [type |-> COMMENT, content |-> <<"a", "b", "i">>,
       raw |-> <<"#", "a", "b", "i">>, metadata |-> EmptyDict],
      [type |-> COMMENT, content |-> <<"b">>, raw |-> <<"#", "b">>,
       metadata |-> EmptyDict],
      [type |-> ROLE, content |-> <<"a", "i">>, raw |-> <<"a", "i", ":">>,
       metadata |-> [role |-> <<"a", "i">>]],
      [type |-> WHITESPACE, content |-> <<>>, raw |-> <<>>,
       metadata |-> EmptyDict] }

\* the lists of at most n such elements, one per line and numbered from line
\* 0; a blank line before any element gives no element
ElementLists(n) ==
    {AsSeq([m \in DOMAIN f |->
               PromptElement(f[m].type, f[m].content, m - 1, m - 1, f[m].raw,
                             f[m].metadata)]) :
        f \in {g \in UNION {[1..m -> ElemVocab] : m \in 0..n} :
                  Len(g) > 0 => g[1].type # WHITESPACE}}

\* the text parse_prompt returns the elements for
TextOf(elements) ==
    Join(AsSeq([m \in DOMAIN elements |-> elements[m].raw]), <<"\n">>)

InitAlign ==
    /\ old_elements \in ElementLists(MaxElems)
    /\ new_elements \in ElementLists(MaxElems)
    /\ old_text = TextOf(old_elements)
    /\ new_text = TextOf(new_elements)
    /\ al = AlignStart
    /\ k = 1
    /\ result = EmptyDict
    /\ pc = AfterStep("exact", "remaining", Filtered(new_elements), 0)
    /\ NoParse
    /\ NoScore

NextAlign ==
    \/ ExactPass
    \/ SimilarPass
    \/ AppendRemaining
    \/ BuildDiffs

SpecAlign == InitAlign /\ [][NextAlign]_vars

(***************************************************************************)
(* Properties of parse_prompt, checked under SpecParse.                    *)
(***************************************************************************)
\* line number l (0-based) of the text is empty once stripped
BlankAt(l) == Len(Strip(lines[l + 1])) = 0

\* line number l starts with a code fence once stripped
FenceAt(l) == StartsWith(Strip(lines[l + 1]), <<BackTick, BackTick, BackTick>>)

\* line number l lies in the range of element e
InRange(e, l) == e.line_start <= l /\ l <= e.line_end

\* the line numbers of the text
LineNumbers == 0..(Len(lines) - 1)

\* C1: the elements parse_prompt returns are in strictly increasing
\* line_start order, each has line_start <= line_end, no two ranges overlap,
\* and the ranges (Whitespace elements included) cover every line of the text
\* except the blank lines before the first element.
SegmentsPartitionLines ==
    pc = "done" =>
        LET es == st.elements
        IN /\ \A n \in DOMAIN es :
                 /\ es[n].line_start <= es[n].line_end
                 /\ es[n].line_start \in LineNumbers
                 /\ es[n].line_end \in LineNumbers
           /\ \A m, n \in DOMAIN es :
                 m < n => /\ es[m].line_start < es[n].line_start
                          /\ es[m].line_end < es[n].line_start
           /\ \A l \in LineNumbers :
                 \/ \E n \in DOMAIN es : InRange(es[n], l)
                 \/ BlankAt(l) /\ \A n \in DOMAIN es : l < es[n].line_start

\* a text with leading blank lines skipped, an element of several lines and
\* a Whitespace element has been segmented
SegmentsPartitionLinesReached ==
    /\ pc = "done"
    /\ \E n \in DOMAIN st.elements :
          st.elements[n].line_start < st.elements[n].line_end
    /\ \E n \in DOMAIN st.elements : st.elements[n].type = WHITESPACE
    /\ Len(st.elements) >= 2

\* C2: a blank line outside a code block ends the open Text, Instruction or
\* Example run, which is flushed with its range ending on the line before the
\* blank one, and unless no element exists yet the blank line is emitted as a
\* Whitespace element of its own; so an instruction line, a blank line and a
\* text line give an Instruction at line 0, a Whitespace at line 1 and a Text
\* at line 2.
BlankLineEndsRun ==
    pc = "done" =>
        LET es == st.elements
            InBlock(l) == \E n \in DOMAIN es :
                              FenceAt(es[n].line_start) /\ InRange(es[n], l)
        IN /\ \A n \in DOMAIN es :
                 (es[n].type \in {TEXT, INSTRUCTION, EXAMPLE}
                     /\ ~FenceAt(es[n].line_start))
                 => \A l \in es[n].line_start..es[n].line_end : ~BlankAt(l)
           /\ \A l \in LineNumbers :
                 (BlankAt(l) /\ ~InBlock(l)
                     /\ \E n \in DOMAIN es : es[n].line_start < l)
                 => \E n \in DOMAIN es :
                        /\ es[n].type = WHITESPACE
                        /\ es[n].line_start = l
                        /\ es[n].line_end = l
                        /\ es[n].content = <<>>
           /\ lines = << <<"-", "a">>, <<>>, <<"a">> >>
                 => /\ Len(es) = 3
                    /\ es[1].type = INSTRUCTION /\ es[1].line_start = 0
                    /\ es[2].type = WHITESPACE /\ es[2].line_start = 1
                    /\ es[3].type = TEXT /\ es[3].line_start = 2

\* the instruction line, the blank line and the text line have been segmented
\* into one Instruction element of three lines
BlankLineJoinsRun ==
    /\ pc = "done"
    /\ lines = << <<"-", "a">>, <<>>, <<"a">> >>
    /\ Len(st.elements) = 1
    /\ st.elements[1].type = INSTRUCTION
    /\ st.elements[1].line_start = 0
    /\ st.elements[1].line_end = 2
    /\ st.elements[1].content = <<"-", "a", "\n", "\n", "a">>

\* line number l opens a code block: it is a fence line with an even number
\* of fence lines before it
OpensBlock(l) ==
    FenceAt(l) /\ Cardinality({m \in 0..(l - 1) : FenceAt(m)}) % 2 = 0

\* the last line of the code block opened at line number l: the next fence
\* line, or the last line of the text
BlockEnd(l) ==
    LET later == {c \in (l + 1)..(Len(lines) - 1) : FenceAt(c)}
    IN IF later = {} THEN Len(lines) - 1
       ELSE CHOOSE c \in later : \A d \in later : c <= d

\* C9: once a fence line opens a code block, every line up to and including
\* the closing fence, or through the end of the text when the fence is never
\* closed, is accumulated into one Example element starting at the opening
\* fence; no line inside the block produces an element of its own.
FenceSwallowsLines ==
    pc = "done" =>
        LET es == st.elements
        IN \A l \in LineNumbers :
              OpensBlock(l) =>
                  /\ \E n \in DOMAIN es :
                        /\ es[n].type = EXAMPLE
                        /\ es[n].line_start = l
                        /\ es[n].line_end = BlockEnd(l)
                        /\ es[n].content =
                              Join(SubSeq(lines, l + 1, BlockEnd(l) + 1), <<"\n">>)
                  /\ Cardinality({n \in DOMAIN es :
                                     \E m \in l..BlockEnd(l) : InRange(es[n], m)}) = 1

\* a text with a fence never closed and a role marker and a blank line after
\* it has been segmented, into one element
FenceSwallowsLinesReached ==
    /\ pc = "done"
    /\ st.in_code_block
    /\ OpensBlock(0)
    /\ Len(lines) = 3
    /\ is_role_marker(Strip(lines[2]))[1]
    /\ BlankAt(2)
    /\ Len(st.elements) = 1

\* C10 as stated: the syntax detect_template_syntax computes for the text is
\* under the key 'syntax' in the metadata of every element parse_prompt
\* returns, whatever its type.
SyntaxOnEveryElement ==
    pc = "done" =>
        \A n \in DOMAIN st.elements :
            /\ "syntax" \in DOMAIN st.elements[n].metadata
            /\ st.elements[n].metadata.syntax = detect_template_syntax(text)

\* C10, amended: the syntax detect_template_syntax computes for the text is
\* under the key 'syntax' in the metadata of every Text, Instruction and
\* Example element parse_prompt returns, and of no Role, Comment or
\* Whitespace element: the metadata of a Role element holds its role alone,
\* that of a Comment or Whitespace element is empty.
SyntaxOnFlushedElements ==
    pc = "done" =>
        \A n \in DOMAIN st.elements :
            LET e == st.elements[n]
            IN IF e.type \in {TEXT, INSTRUCTION, EXAMPLE}
               THEN /\ "syntax" \in DOMAIN e.metadata
                    /\ e.metadata.syntax = detect_template_syntax(text)
               ELSE IF e.type = ROLE
               THEN DOMAIN e.metadata = {"role"}
               ELSE DOMAIN e.metadata = {}

\* a text with a variable has been segmented into a Role element without and
\* a Text element with the syntax of the text
SyntaxOnFlushedElementsReached ==
    /\ pc = "done"
    /\ \E n \in DOMAIN st.elements :
          /\ st.elements[n].type = ROLE
          /\ "syntax" \notin DOMAIN st.elements[n].metadata
    /\ \E n \in DOMAIN st.elements :
          /\ st.elements[n].type = TEXT
          /\ st.elements[n].metadata.syntax = "fstring"

(***************************************************************************)
(* Properties of align_elements and diff_prompts, checked under Spec.      *)
(***************************************************************************)
\* the elements that are not Whitespace, in order
NonWhitespace(elements) == SelectSeq(elements, LAMBDA e : e.type # WHITESPACE)

\* the number of diffs of one change type in the result
Count(change_type) ==
    Cardinality({n \in DOMAIN result.element_diffs :
                    result.element_diffs[n].change_type = change_type})

\* the number of aligned pairs that hold element e on the given side
PairsWith(e, side) ==
    Cardinality({p \in DOMAIN al.aligned : al.aligned[p][side] = e})

\* C3: in the pairs align_elements returns, every old and every new element
\* that is not Whitespace is in exactly one pair, no Whitespace element is in
\* any pair and no pair is (None, None); diff_prompts makes one ElementDiff
\* per pair, so the counts of Added, Removed, Modified and Unchanged diffs add
\* up to the number of pairs.
AlignmentTotal ==
    pc \in {"diff", "done"} =>
        /\ \A n \in DOMAIN old_elements :
              PairsWith(old_elements[n], 1) =
                  IF old_elements[n].type = WHITESPACE THEN 0 ELSE 1
        /\ \A n \in DOMAIN new_elements :
              PairsWith(new_elements[n], 2) =
                  IF new_elements[n].type = WHITESPACE THEN 0 ELSE 1
        /\ \A p \in DOMAIN al.aligned :
              /\ al.aligned[p] # <<NoElem, NoElem>>
              /\ al.aligned[p][1].type # WHITESPACE
              /\ al.aligned[p][2].type # WHITESPACE
              /\ \/ al.aligned[p][1] = NoElem
                 \/ \E n \in DOMAIN old_elements : al.aligned[p][1] = old_elements[n]
              /\ \/ al.aligned[p][2] = NoElem
                 \/ \E n \in DOMAIN new_elements : al.aligned[p][2] = new_elements[n]
        /\ pc = "done" =>
              /\ Len(result.element_diffs) = Len(al.aligned)
              /\ Count(ADDED) + Count(REMOVED) + Count(MODIFIED) + Count(UNCHANGED_)
                    = Len(al.aligned)

\* two texts have been compared of which the old one has a Whitespace element
\* and the alignment has two pairs
AlignmentTotalReached ==
    /\ pc = "done"
    /\ \E n \in DOMAIN old_elements : old_elements[n].type = WHITESPACE
    /\ Len(al.aligned) = 2
    /\ Len(result.element_diffs) = 2

\* C4: a pair with only the new element gives Added, without old_content and
\* old_line; a pair with only the old element gives Removed, without
\* new_content and new_line; two elements of identical content give
\* Unchanged, of different content Modified; details holds 'similarity',
\* which is compute_similarity of the two contents, if and only if the diff
\* is Modified; element_type is the type of the old element if there is one.
FourWayClassification ==
    pc = "done" =>
        \A p \in DOMAIN al.aligned :
            LET old == al.aligned[p][1]
                new == al.aligned[p][2]
                d == result.element_diffs[p]
            IN /\ (old = NoElem /\ new # NoElem) =>
                      /\ d.change_type = ADDED
                      /\ d.old_content = NoneStr /\ d.old_line = NoneInt
                      /\ d.new_content = new.content /\ d.new_line = new.line_start
                      /\ d.element_type = new.type
               /\ (old # NoElem /\ new = NoElem) =>
                      /\ d.change_type = REMOVED
                      /\ d.new_content = NoneStr /\ d.new_line = NoneInt
                      /\ d.old_content = old.content /\ d.old_line = old.line_start
               /\ (old # NoElem /\ new # NoElem) =>
                      /\ d.change_type =
                            IF old.content = new.content THEN UNCHANGED_ ELSE MODIFIED
                      /\ d.old_content = old.content /\ d.old_line = old.line_start
                      /\ d.new_content = new.content /\ d.new_line = new.line_start
               /\ old # NoElem => d.element_type = old.type
               /\ "similarity" \in DOMAIN d.details <=> d.change_type = MODIFIED
               /\ d.change_type = MODIFIED =>
                      d.details.similarity = compute_similarity(old.content, new.content)

\* two texts have been compared and the result has a Modified and an Added
\* diff
FourWayClassificationReached ==
    /\ pc = "done"
    /\ \E n \in DOMAIN result.element_diffs :
          /\ result.element_diffs[n].change_type = MODIFIED
          /\ "similarity" \in DOMAIN result.element_diffs[n].details
    /\ \E n \in DOMAIN result.element_diffs :
          result.element_diffs[n].change_type = ADDED

\* C5: diff_prompts of a text with itself gives only Unchanged diffs
\* (has_changes is false), one for each element of the text that is not
\* Whitespace, also when several elements have the same type and content,
\* and the similarity 1.0.
SelfDiffUnchanged ==
    (pc = "done" /\ old_text = new_text) =>
        /\ ~has_changes(result)
        /\ Len(result.element_diffs) = Len(NonWhitespace(old_elements))
        /\ \A n \in DOMAIN result.element_diffs :
              result.element_diffs[n].change_type = UNCHANGED_
        /\ FracEq(result.similarity, One)

\* a text with two elements of the same type and content has been compared
\* with itself
SelfDiffUnchangedReached ==
    /\ pc = "done"
    /\ old_text = new_text
    /\ Len(result.element_diffs) = 2
    /\ result.element_diffs[1].element_type = result.element_diffs[2].element_type
    /\ result.element_diffs[1].old_content = result.element_diffs[2].old_content

\* the union of the 'variables' metadata of the elements
VariablesOf(elements) ==
    UNION {{elements[m].metadata.variables[n] :
               n \in DOMAIN elements[m].metadata.variables} :
           m \in {j \in DOMAIN elements :
                     "variables" \in DOMAIN elements[j].metadata}}

\* C6: added_variables of diff_prompts(A, B) is removed_variables of
\* diff_prompts(B, A), and the other way round; the variables of a side are
\* the union of the 'variables' metadata of its elements.
VariableDiffSymmetry ==
    pc = "done" =>
        LET back == diff_prompts(new_text, old_text)
        IN /\ result.added_variables = back.removed_variables
           /\ result.removed_variables = back.added_variables
           /\ result.old_variables = VariablesOf(old_elements)
           /\ result.new_variables = VariablesOf(new_elements)

\* two texts have been compared of which only the new one has a variable
VariableDiffSymmetryReached ==
    /\ pc = "done"
    /\ result.added_variables = {<<"n">>}
    /\ result.removed_variables = {}
    /\ result.old_variables = {}

\* C7: parse_prompt of the empty text is the empty sequence; diff_prompts of
\* the empty text and a text that is not empty gives one Added diff for each
\* element of the new text that is not Whitespace, no other diff, and the
\* similarity 0.0; for the new text "system: Hello" that is one Added diff of
\* type Role.
EmptyOldAllAdded ==
    (pc \in {"exact", "similar", "remaining", "diff", "done"} /\ Len(old_text) = 0) =>
        /\ old_elements = <<>>
        /\ (pc = "done" /\ Len(new_text) > 0) =>
              LET added == NonWhitespace(new_elements)
              IN /\ Len(result.element_diffs) = Len(added)
                 /\ \A n \in DOMAIN result.element_diffs :
                       /\ result.element_diffs[n].change_type = ADDED
                       /\ result.element_diffs[n].element_type = added[n].type
                       /\ result.element_diffs[n].new_content = added[n].content
                       /\ result.element_diffs[n].new_line = added[n].line_start
                 /\ Count(REMOVED) + Count(MODIFIED) + Count(UNCHANGED_) = 0
                 /\ FracEq(result.similarity, Zero)
                 /\ new_text \in ScenarioTexts =>
                       /\ Len(result.element_diffs) = 1
                       /\ result.element_diffs[1].element_type = ROLE

\* the empty text has been compared with "system: Hello", which gave one
\* Added diff of type Role
EmptyOldAllAddedReached ==
    /\ pc = "done"
    /\ Len(old_text) = 0
    /\ new_text \in ScenarioTexts
    /\ Len(result.element_diffs) = 1
    /\ result.element_diffs[1].change_type = ADDED
    /\ result.element_diffs[1].element_type = ROLE

(***************************************************************************)
(* Properties of compute_similarity, checked under SpecSim.                *)
(***************************************************************************)
\* C8: compute_similarity is within [0, 1]; it is 1.0 for two empty strings,
\* 0.0 when exactly one is empty, and 1.0 for two equal strings; otherwise it
\* is 2*M/(len(a)+len(b)) with M the total length of the matching blocks.
SimilarityValues ==
    pc = "done" =>
        LET la == Len(old_text)
            lb == Len(new_text)
        IN /\ FracLe(Zero, score) /\ FracLe(score, One)
           /\ (la = 0 /\ lb = 0) => FracEq(score, One)
           /\ ((la = 0) # (lb = 0)) => FracEq(score, Zero)
           /\ old_text = new_text => FracEq(score, One)
           /\ (la > 0 /\ lb > 0) =>
                 FracEq(score, Frac(2 * MatchTotal(old_text, new_text, 0, la, 0, lb),
                                    la + lb))

\* two different strings with a matching block have been compared
SimilarityValuesReached ==
    /\ pc = "done"
    /\ old_text # new_text
    /\ FracGt(score, Zero)
    /\ FracGt(One, score)

(***************************************************************************)
(* Properties of the passes of align_elements, checked under SpecAlign.    *)
(***************************************************************************)
\* two elements of equal type and identical content
SameKindContent(a, b) == a.type = b.type /\ a.content = b.content

\* the indices of the elements like e (the occurrences of e)
Occurrences(e, elements) ==
    {n \in DOMAIN elements : SameKindContent(elements[n], e)}

\* the index of element e in the list it is from (an element is known by its
\* first line)
IndexOf(e, elements) ==
    CHOOSE n \in DOMAIN elements : elements[n].line_start = e.line_start

\* which occurrence of its type and content element number n is
Rank(n, elements) ==
    Cardinality({m \in Occurrences(elements[n], elements) : m <= n})

\* the position of element number n among the elements that are not
\* Whitespace
FilteredPosition(n, elements) ==
    Cardinality({m \in 1..n : elements[m].type # WHITESPACE})

\* the first pass has taken new element number n
ExactPassTook(n) ==
    pc # "exact" \/ FilteredPosition(n, new_elements) < k

\* C11: the exact pass pairs each new element that is not Whitespace, taken
\* in order, with the first old element not yet used of equal type and
\* identical content, and marks both used: the i-th occurrence in new of a
\* type and content is paired with the i-th occurrence in old, if there is
\* one, and no old element is paired twice.
ExactPassFirstFit ==
    /\ \A n \in DOMAIN new_elements :
          (/\ new_elements[n].type # WHITESPACE
           /\ ExactPassTook(n)
           /\ Rank(n, new_elements)
                 <= Cardinality(Occurrences(new_elements[n], old_elements)))
          => \E p \in DOMAIN al.aligned :
                /\ al.aligned[p][2] = new_elements[n]
                /\ al.aligned[p][1] # NoElem
                /\ SameKindContent(al.aligned[p][1], new_elements[n])
                /\ Rank(IndexOf(al.aligned[p][1], old_elements), old_elements)
                      = Rank(n, new_elements)
                /\ IndexOf(al.aligned[p][1], old_elements) \in al.old_used
                /\ n \in al.new_used
    /\ \A n \in DOMAIN old_elements : PairsWith(old_elements[n], 1) <= 1
    /\ pc \in {"exact", "similar"} /\ (pc = "similar" => k = 1) =>
          /\ \A p \in DOMAIN al.aligned :
                /\ al.aligned[p][1] # NoElem /\ al.aligned[p][2] # NoElem
                /\ SameKindContent(al.aligned[p][1], al.aligned[p][2])
          /\ al.old_used = {IndexOf(al.aligned[p][1], old_elements) :
                               p \in DOMAIN al.aligned}
          /\ al.new_used = {IndexOf(al.aligned[p][2], new_elements) :
                               p \in DOMAIN al.aligned}
          /\ \A p, q \in DOMAIN al.aligned :
                p < q => al.aligned[p][2].line_start < al.aligned[q][2].line_start

\* the exact pass has paired the two occurrences of an element in new with
\* its two occurrences in old, the first with the first
ExactPassFirstFitReached ==
    /\ pc = "similar"
    /\ k = 1
    /\ Len(al.aligned) = 2
    /\ SameKindContent(al.aligned[1][2], al.aligned[2][2])
    /\ al.aligned[1][1].line_start < al.aligned[2][1].line_start
    /\ al.old_used = {1, 2}

\* C12: the similarity pass pairs each new element the exact pass left
\* unmatched, taken in order, with the old element not yet used of the same
\* type whose similarity to it is highest, if that score is strictly above
\* 0.5; of several old elements with the highest score the earliest is
\* taken; the old element taken is marked used, so it is not offered again.
SimilarPassBestFit ==
    [][SimilarPass =>
          LET new == Filtered(new_elements)[k]
              old_filtered == Filtered(old_elements)
              Score(n) == compute_similarity(old_filtered[n].elem.content,
                                             new.elem.content)
              offered == {n \in DOMAIN old_filtered :
                             /\ old_filtered[n].idx \notin al.old_used
                             /\ old_filtered[n].elem.type = new.elem.type
                             /\ FracGt(Score(n), Half)}
          IN IF new.idx \in al.new_used \/ offered = {}
             THEN al' = al
             ELSE \E n \in offered :
                     /\ \A m \in offered : FracLe(Score(m), Score(n))
                     /\ \A m \in offered : FracEq(Score(m), Score(n)) => n <= m
                     /\ al'.aligned =
                           Append(al.aligned, <<old_filtered[n].elem, new.elem>>)
                     /\ al'.old_used = al.old_used \cup {old_filtered[n].idx}
                     /\ al'.new_used = al.new_used \cup {new.idx}
    ]_vars

\* the similarity pass has paired a new element with the first of two old
\* elements of different content that score the same against it
SimilarPassBestFitReached ==
    /\ pc = "remaining"
    /\ Len(old_elements) = 2
    /\ Len(al.aligned) = 1
    /\ al.aligned[1][1] = old_elements[1]
    /\ al.old_used = {1}
    /\ old_elements[2].type = old_elements[1].type
    /\ old_elements[2].content # old_elements[1].content
    /\ al.aligned[1][2].content # old_elements[1].content
    /\ compute_similarity(old_elements[2].content, al.aligned[1][2].content)
          = compute_similarity(old_elements[1].content, al.aligned[1][2].content)

\* the group of an aligned pair: 1 for a matched pair (old, new), 2 for a
\* removal (old, None), 3 for an addition (None, new)
PairGroup(pair) ==
    IF pair[1] # NoElem /\ pair[2] # NoElem THEN 1
    ELSE IF pair[2] = NoElem THEN 2
    ELSE 3

\* C13: in the list align_elements returns every matched pair precedes every
\* (old, None) pair, every (old, None) pair precedes every (None, new) pair,
\* the (old, None) pairs are in the order of the old elements and the
\* (None, new) pairs in the order of the new elements.
AlignedOrder ==
    \A p, q \in DOMAIN al.aligned :
        p < q =>
            /\ PairGroup(al.aligned[p]) <= PairGroup(al.aligned[q])
            /\ (PairGroup(al.aligned[p]) = 2 /\ PairGroup(al.aligned[q]) = 2) =>
                  IndexOf(al.aligned[p][1], old_elements)
                     < IndexOf(al.aligned[q][1], old_elements)
            /\ (PairGroup(al.aligned[p]) = 3 /\ PairGroup(al.aligned[q]) = 3) =>
                  IndexOf(al.aligned[p][2], new_elements)
                     < IndexOf(al.aligned[q][2], new_elements)

\* align_elements has returned a matched pair, then a removal, then an
\* addition
AlignedOrderReached ==
    /\ pc = "diff"
    /\ Len(al.aligned) = 3
    /\ PairGroup(al.aligned[1]) = 1
    /\ PairGroup(al.aligned[2]) = 2
    /\ PairGroup(al.aligned[3]) = 3

(***************************************************************************)
(* Further properties of parse_prompt, checked under SpecParse.            *)
(***************************************************************************)
\* line number l matches an instruction prefix
InstructionAt(l) == is_instruction_line(Strip(lines[l + 1]))

\* C14: consecutive instruction lines outside an example merge into one
\* Instruction element, and the first line after them that matches no
\* instruction prefix ends the run: the range of the Instruction element
\* stops before that line, which belongs to a different element.
InstructionRunEndsAtOtherLine ==
    pc = "done" =>
        \A n \in DOMAIN st.elements :
            st.elements[n].type = INSTRUCTION =>
                /\ \A l \in st.elements[n].line_start..st.elements[n].line_end :
                      InstructionAt(l)
                /\ (n < Len(st.elements)
                       /\ st.elements[n + 1].type = INSTRUCTION)
                   => st.elements[n + 1].line_start > st.elements[n].line_end + 1

\* an instruction line and a line that matches no instruction prefix have
\* been segmented into one Instruction element of two lines
InstructionRunAbsorbsLine ==
    /\ pc = "done"
    /\ lines = << <<"-", "a">>, <<"a">> >>
    /\ ~InstructionAt(1)
    /\ Len(st.elements) = 1
    /\ st.elements[1].type = INSTRUCTION
    /\ st.elements[1].line_start = 0
    /\ st.elements[1].line_end = 1
    /\ st.elements[1].content = <<"-", "a", "\n", "a">>

\* the names of the variables extract_variables finds in a content, in order
NamesIn(content) ==
    LET vs == extract_variables(content)
    IN AsSeq([n \in DOMAIN vs |-> vs[n].name])

\* C15: after parse_prompt the metadata of an element holds 'variables' only
\* if the element is Text, Instruction or Example and extract_variables found
\* a variable in its content; a Role, Comment or Whitespace element never
\* holds 'variables', so a variable on a role or comment line is not among
\* the variables get_all_variables collects for old_variables and
\* new_variables.
VariablesOnContentElements ==
    pc = "done" =>
        /\ \A n \in DOMAIN st.elements :
              LET e == st.elements[n]
              IN IF e.type \in {TEXT, INSTRUCTION, EXAMPLE}
                    /\ Len(NamesIn(e.content)) > 0
                 THEN /\ "variables" \in DOMAIN e.metadata
                      /\ e.metadata.variables = NamesIn(e.content)
                 ELSE "variables" \notin DOMAIN e.metadata
        /\ get_all_variables(st.elements) =
              UNION {{NamesIn(st.elements[n].content)[m] :
                         m \in DOMAIN NamesIn(st.elements[n].content)} :
                     n \in {j \in DOMAIN st.elements :
                               st.elements[j].type \in {TEXT, INSTRUCTION, EXAMPLE}}}

\* a text with a variable on a role line and on a comment line, and on no
\* other line, has been segmented: no variable is collected
VariablesOnContentElementsReached ==
    /\ pc = "done"
    /\ \E n \in DOMAIN st.elements : st.elements[n].type = ROLE
    /\ \E n \in DOMAIN st.elements :
          /\ st.elements[n].type = COMMENT
          /\ Len(NamesIn(st.elements[n].content)) > 0
    /\ Len(extract_variables(text)) > 1
    /\ get_all_variables(st.elements) = {}

(***************************************************************************)
(* Where the diffs of diff_prompts come from, checked under SpecAlign.     *)
(***************************************************************************)
\* the pair a pass has appended in this step, if it has appended one
Appended(pair) ==
    /\ Len(al'.aligned) = Len(al.aligned) + 1
    /\ pair = al'.aligned[Len(al'.aligned)]

\* after the exact pass no old and new element, both unused, have equal type
\* and content
NoExactPairLeft ==
    \A m \in DOMAIN old_elements, n \in DOMAIN new_elements :
        (/\ old_elements[m].type # WHITESPACE
         /\ new_elements[n].type # WHITESPACE
         /\ m \notin al.old_used
         /\ n \notin al.new_used)
        => ~SameKindContent(old_elements[m], new_elements[n])

\* the diffs of the result: a Modified diff is of two elements of the same
\* type and different content with a similarity strictly between 0.5 and
\* 1.0, an Unchanged diff is of two elements of the same type, and the
\* Unchanged diffs (of the exact pass) come before the Modified ones (of the
\* similarity pass)
DiffsByPass ==
    \A p \in DOMAIN result.element_diffs :
        LET d == result.element_diffs[p]
            old == al.aligned[p][1]
            new == al.aligned[p][2]
        IN /\ d.change_type = MODIFIED =>
                 /\ old.type = new.type
                 /\ old.content # new.content
                 /\ FracGt(d.details.similarity, Half)
                 /\ FracGt(One, d.details.similarity)
                 /\ \A q \in DOMAIN result.element_diffs :
                       result.element_diffs[q].change_type = UNCHANGED_ => q < p
           /\ d.change_type = UNCHANGED_ =>
                 /\ old.type = new.type
                 /\ SameKindContent(old, new)

\* C16: an Unchanged diff of diff_prompts comes only from a pair of the exact
\* pass and a Modified diff only from a pair of the similarity pass: the
\* exact pass appends only pairs of equal type and content and leaves no
\* unused old and new element of equal type and content, the similarity pass
\* appends only pairs of equal type and different content that score above
\* 0.5; so a Modified diff has two elements of the same type and different
\* content and a similarity strictly between 0.5 and 1.0, and an Unchanged
\* diff has two elements of the same type.
UnchangedExactModifiedSimilar ==
    /\ [](pc \in {"similar", "remaining", "diff", "done"} => NoExactPairLeft)
    /\ [](pc = "done" => DiffsByPass)
    /\ [][ExactPass =>
             \A pair \in {al'.aligned[n] : n \in DOMAIN al'.aligned} :
                 Appended(pair) => SameKindContent(pair[1], pair[2])]_vars
    /\ [][SimilarPass =>
             \A pair \in {al'.aligned[n] : n \in DOMAIN al'.aligned} :
                 Appended(pair) =>
                     /\ pair[1].type = pair[2].type
                     /\ pair[1].content # pair[2].content
                     /\ FracGt(compute_similarity(pair[1].content, pair[2].content),
                               Half)]_vars

\* two lists have been compared and the result has an Unchanged diff and a
\* Modified diff
UnchangedExactModifiedSimilarReached ==
    /\ pc = "done"
    /\ Len(result.element_diffs) = 2
    /\ result.element_diffs[1].change_type = UNCHANGED_
    /\ result.element_diffs[2].change_type = MODIFIED
    /\ FracGt(result.element_diffs[2].details.similarity, Half)

====
